---- MODULE Spec2Model ----
(***************************************************************************)
(* Xopt: the SequentialGenerator activation/lockout protocol               *)
(* (xopt/generators/sequential/sequential_generator.py) and the MOBO       *)
(* driver (xopt/mobo.py).                                                  *)
(*                                                                         *)
(* Five specifications share the module:                                   *)
(*   Spec         the SequentialGenerator under every sequence of          *)
(*                generate / add_data / set_data / reset calls;            *)
(*   SpecBatch    one batch of sampler_evaluate tasks running on a thread  *)
(*                pool while get_results polls them, then collect_results; *)
(*   SpecCollect  collect_results applied to every bounded batch of        *)
(*                outcome records;                                         *)
(*   SpecCorrect  the sign correction, the surrogate's training matrices   *)
(*                and optimize_qehvi's constraint handling on every        *)
(*                bounded dataset and VOCS;                                *)
(*   SpecMobo     a whole run of mobo: initial samples, n_steps            *)
(*                iterations, return.                                      *)
(***************************************************************************)
EXTENDS Integers, Sequences, FiniteSets, TLC

VARIABLES
    \* ---- SequentialGenerator fields (sequential_generator.py:18-20, Generator.data)
    is_active,        \* self.is_active
    last_candidate,   \* self._last_candidate : Optional[List[Dict]]
    data_set,         \* self._data_set
    data,             \* self.data : Optional[DataFrame]
    \* ---- what the last public call was and how it ended
    op,               \* [name, n, frame]: the call and its argument
    err,              \* "ok" or the exception kind the call raised
    hooks,            \* the subclass hooks the call invoked
    ret,              \* what generate() returned (Optional)
    \* ---- history variables of the generator
    outstanding,      \* candidates handed out and neither resolved nor discarded
    discarded,        \* the candidate that the last reset() threw away (Optional)
    reset_after_set,  \* a reset() has run since set_data() initialised the data
    \* ---- one batch of evaluations (mobo.py)
    batch,            \* the inputs submitted, in submission order
    tpc,              \* per task: "pending", "evaluated", "done"
    terr,             \* per task: the local variable err of sampler_evaluate
    outputs,          \* the module global `outputs` of sampler_evaluate
    fresult,          \* per task: the future's result (Optional)
    gpc,              \* get_results / collect_results position
    ix,               \* get_results: loop index of the for loop
    ii,               \* get_results: the counter ii
    results,          \* get_results: the list results
    collected,        \* what collect_results returned or raised (Optional)
    \* ---- the mobo driver (mobo.py:237-447)
    pc,               \* position in mobo
    n_steps,          \* argument n_steps
    return_model,     \* argument return_model
    step,             \* the loop variable i
    vocs_objectives,  \* vocs['objectives']: one direction per objective
    vocs_constraints, \* vocs['constraints']: one <<direction, threshold>> per constraint
    ref,              \* argument ref
    train_x,          \* the running dataset: inputs,
    train_y,          \*   raw objectives
    train_c,          \*   and raw constraints, one row per observation
    corrected_ref,    \* the sign-corrected working copies of an iteration
    corrected_train_y,
    corrected_train_c,
    train_outputs,    \* hstack of standardized objectives and corrected constraints (Optional: unbound before the first iteration)
    model,            \* the last surrogate built: the rows it was given (Optional)
    acq,              \* optimize_qehvi's locals: is_feas and the columns its constraint functions read (Optional)
    candidates,       \* what optimize_qehvi returned
    hv_track,         \* the hypervolume track
    stragglers,       \* inputs of tasks still pending when get_results returned early
    raised,           \* the exception that left mobo, "" if none
    mobo_result,      \* what mobo returned (Optional)
    \* ---- history of the run
    successes,        \* evaluate_f calls that returned normally
    skipped           \* iterations that ended with NoValidResultsError

genVars == <<is_active, last_candidate, data_set, data, op, err, hooks, ret, outstanding, discarded, reset_after_set>>
batchVars == <<batch, tpc, terr, outputs, fresult, gpc, ix, ii, results, collected>>
sizeVars == <<pc, n_steps, return_model, step, hv_track, stragglers, raised, mobo_result>>
dataVars == <<vocs_objectives, vocs_constraints, ref, train_x, train_y, train_c>>
workVars == <<corrected_ref, corrected_train_y, corrected_train_c, train_outputs, model, acq, candidates>>
moboVars == <<sizeVars, dataVars, workVars>>
countVars == <<successes, skipped>>
restVars == <<moboVars, countVars>>
vars == <<genVars, batchVars, restVars>>

(***************************************************************************)
(* Python's Optional values: None and a present value.                     *)
(***************************************************************************)
None == [none |-> TRUE, val |-> <<>>]
Some(v) == [none |-> FALSE, val |-> v]

Abs(x) == IF x < 0 THEN -x ELSE x

(***************************************************************************)
(* Bounds of the model.                                                    *)
(***************************************************************************)
MaxRows == 2          \* most rows of one new_data / data frame
MaxData == 2          \* most rows the cumulative dataset grows to
MaxCandidates == 2    \* largest n_candidates requested
MaxOutstanding == 3   \* most unresolved candidates tracked

(***************************************************************************)
(* The generator's VOCS: two variables.  Values are chosen around 2e6 so   *)
(* that a difference of 1 is inside the relative tolerance 1e-6 and a      *)
(* difference of 5 is outside it.                                          *)
(***************************************************************************)
variable_names == <<"x1", "x2">>

Point(a, b) == [x1 |-> a, x2 |-> b]
GenPoints == {Point(2000000, 2000000), Point(2000001, 2000000), Point(2000000, 2000005)}

\* what a subclass's _generate hook may return: a list holding one point
HookCandidates == {<<Point(2000000, 2000000)>>, <<Point(2000000, 2000005)>>}

RECURSIVE SeqsUpTo(_, _)
SeqsUpTo(S, n) ==
    IF n = 0 THEN {<<>>}
    ELSE LET shorter == SeqsUpTo(S, n - 1)
         IN  shorter \cup {Append(s, x) : s \in {t \in shorter : Len(t) = n - 1}, x \in S}

Frames == SeqsUpTo(GenPoints, MaxRows)

(***************************************************************************)
(* numpy.allclose(a, b, atol=0.0, rtol=1e-6): |a - b| <= atol + rtol*|b|   *)
(* for every element; rtol is the rational RtolNum / RtolDen.              *)
(***************************************************************************)
RtolNum == 1
RtolDen == 1000000

IsClose(a, b) == Abs(a - b) * RtolDen <= RtolNum * Abs(b)

AllClose(p, q) == \A i \in 1..Len(variable_names) : IsClose(p[variable_names[i]], q[variable_names[i]])

(***************************************************************************)
(* validate_point(point): TRUE when it returns, FALSE when it raises       *)
(* SeqGeneratorError.  self._last_candidate[0] is compared with point.     *)
(***************************************************************************)
ValidatePoint(point) == AllClose(last_candidate.val[1], point)

(***************************************************************************)
(* SequentialGenerator.add_data                                            *)
(***************************************************************************)
\* the row-count guard off by one
TooManyRowsOffByOne(new_data) == Len(new_data) > 2

\* line 42: the row-count guard applied while the generator is active
TooManyRows(new_data) == Len(new_data) > 1

\* line 48: the point handed to validate_point while the generator is active
ValidatedPoint(new_data) == last_candidate.val[1]

\* lines 37-48: TRUE when add_data raises SeqGeneratorError
AddDataRaises(new_data) ==
    /\ is_active
    /\ \/ last_candidate.none
       \/ TooManyRows(new_data)
       \/ ~ValidatePoint(ValidatedPoint(new_data))

\* lines 51-54: self.data after the new rows are concatenated
ConcatData(new_data) == IF ~data.none THEN Some(data.val \o new_data) ELSE Some(new_data)

\* add_data that also drops the stored candidate once the data is accepted
AddDataClearsCandidate(new_data) ==
    /\ op' = [name |-> "add_data", n |-> 0, frame |-> new_data]
    /\ ret' = None
    /\ IF AddDataRaises(new_data)
       THEN /\ err' = "SeqGeneratorError"
            /\ hooks' = {}
            /\ UNCHANGED <<data, outstanding, last_candidate>>
       ELSE /\ Len(ConcatData(new_data).val) <= MaxData
            /\ data' = ConcatData(new_data)
            /\ hooks' = {"_add_data"}
            /\ err' = "ok"
            /\ outstanding' = 0
            /\ last_candidate' = None
    /\ UNCHANGED <<is_active, data_set, discarded, reset_after_set>>

AddData(new_data) ==
    /\ op' = [name |-> "add_data", n |-> 0, frame |-> new_data]
    /\ ret' = None
    /\ IF AddDataRaises(new_data)
       THEN /\ err' = "SeqGeneratorError"
            /\ hooks' = {}
            /\ UNCHANGED <<data, outstanding>>
       ELSE /\ Len(ConcatData(new_data).val) <= MaxData
            /\ data' = ConcatData(new_data)
            /\ hooks' = {"_add_data"}
            /\ err' = "ok"
            /\ outstanding' = 0
    /\ UNCHANGED <<is_active, last_candidate, data_set, discarded, reset_after_set>>

(***************************************************************************)
(* SequentialGenerator.set_data; the subclass's _set_data installs the     *)
(* given frame as the full dataset.                                        *)
(***************************************************************************)
SetData(frame) ==
    /\ op' = [name |-> "set_data", n |-> 0, frame |-> frame]
    /\ ret' = None
    /\ IF data_set
       THEN /\ err' = "ValueError"
            /\ hooks' = {}
            /\ UNCHANGED <<data, data_set>>
       ELSE /\ Len(frame) <= MaxData
            /\ hooks' = {"_set_data"}
            /\ data' = Some(frame)
            /\ data_set' = TRUE
            /\ err' = "ok"
    /\ UNCHANGED <<is_active, last_candidate, outstanding, discarded, reset_after_set>>

(***************************************************************************)
(* SequentialGenerator.generate.  The _generate hook returns a candidate   *)
(* list or raises; hook is "raise" or a member of HookCandidates.          *)
(***************************************************************************)
HookOutcomes == {Some(c) : c \in HookCandidates} \cup {None}

\* the candidate-count guard off by one
TooManyCandidatesOffByOne(n_candidates) == n_candidates > 2

\* line 132: the request is refused
TooManyCandidates(n_candidates) == n_candidates > 1

\* the candidate is returned without being stored
StoredCandidateStale(candidate) == last_candidate

\* line 145: self._last_candidate = candidate
StoredCandidate(candidate) == Some(candidate)

\* lines 138-142: which hook call is made
GenerateHook == IF ~is_active THEN "_generate(True)" ELSE "_generate()"

\* generate that marks the generator active before it calls the hook
GenerateActivatesFirst(n_candidates, hook) ==
    /\ op' = [name |-> "generate", n |-> n_candidates, frame |-> <<>>]
    /\ IF TooManyCandidates(n_candidates)
       THEN /\ err' = "SeqGeneratorError"
            /\ hooks' = {}
            /\ ret' = None
            /\ UNCHANGED <<is_active, last_candidate, outstanding, discarded>>
       ELSE /\ hooks' = {GenerateHook}
            /\ is_active' = TRUE
            /\ IF hook.none
               THEN /\ err' = "HookError"
                    /\ ret' = None
                    /\ UNCHANGED <<last_candidate, outstanding, discarded>>
               ELSE /\ outstanding < MaxOutstanding
                    /\ last_candidate' = StoredCandidate(hook.val)
                    /\ ret' = Some(hook.val)
                    /\ err' = "ok"
                    /\ outstanding' = outstanding + 1
                    /\ discarded' = None
    /\ UNCHANGED <<data, data_set, reset_after_set>>

Generate(n_candidates, hook) ==
    /\ op' = [name |-> "generate", n |-> n_candidates, frame |-> <<>>]
    /\ IF TooManyCandidates(n_candidates)
       THEN /\ err' = "SeqGeneratorError"
            /\ hooks' = {}
            /\ ret' = None
            /\ UNCHANGED <<is_active, last_candidate, outstanding, discarded>>
       ELSE /\ hooks' = {GenerateHook}
            /\ IF hook.none
               THEN \* the hook raised: nothing after the call runs
                    /\ err' = "HookError"
                    /\ ret' = None
                    /\ UNCHANGED <<is_active, last_candidate, outstanding, discarded>>
               ELSE /\ outstanding < MaxOutstanding
                    /\ is_active' = TRUE
                    /\ last_candidate' = StoredCandidate(hook.val)
                    /\ ret' = Some(hook.val)
                    /\ err' = "ok"
                    /\ outstanding' = outstanding + 1
                    /\ discarded' = None
    /\ UNCHANGED <<data, data_set, reset_after_set>>

(***************************************************************************)
(* SequentialGenerator.reset                                               *)
(***************************************************************************)
\* reset that leaves the generator active
ResetKeepsActive ==
    /\ op' = [name |-> "reset", n |-> 0, frame |-> <<>>]
    /\ last_candidate' = None
    /\ hooks' = {"_reset"}
    /\ err' = "ok"
    /\ ret' = None
    /\ outstanding' = 0
    /\ discarded' = last_candidate
    /\ reset_after_set' = data_set
    /\ UNCHANGED <<data, data_set, is_active>>

\* reset that also re-arms the one-time set_data guard
ResetClearsDataSet ==
    /\ op' = [name |-> "reset", n |-> 0, frame |-> <<>>]
    /\ is_active' = FALSE
    /\ last_candidate' = None
    /\ hooks' = {"_reset"}
    /\ err' = "ok"
    /\ ret' = None
    /\ outstanding' = 0
    /\ discarded' = last_candidate
    /\ reset_after_set' = data_set
    /\ data_set' = FALSE
    /\ UNCHANGED data

Reset ==
    /\ op' = [name |-> "reset", n |-> 0, frame |-> <<>>]
    /\ is_active' = FALSE
    /\ last_candidate' = None
    /\ hooks' = {"_reset"}
    /\ err' = "ok"
    /\ ret' = None
    /\ outstanding' = 0
    /\ discarded' = last_candidate
    /\ reset_after_set' = data_set
    /\ UNCHANGED <<data, data_set>>

(***************************************************************************)
(* The generator's specification.                                          *)
(***************************************************************************)
BatchIdle ==
    /\ batch = <<>>
    /\ tpc = <<>>
    /\ terr = <<>>
    /\ outputs = None
    /\ fresult = <<>>
    /\ gpc = "idle"
    /\ ix = 0
    /\ ii = 0
    /\ results = <<>>
    /\ collected = None

GenIdle ==
    /\ is_active = FALSE
    /\ last_candidate = None
    /\ data_set = FALSE
    /\ data = None
    /\ op = [name |-> "init", n |-> 0, frame |-> <<>>]
    /\ err = "ok"
    /\ hooks = {}
    /\ ret = None
    /\ outstanding = 0
    /\ discarded = None
    /\ reset_after_set = FALSE

\* no mobo run
MoboIdle ==
    /\ pc = "idle"
    /\ n_steps = 0
    /\ return_model = FALSE
    /\ step = 0
    /\ vocs_objectives = <<>>
    /\ vocs_constraints = <<>>
    /\ ref = <<>>
    /\ train_x = <<>>
    /\ train_y = <<>>
    /\ train_c = <<>>
    /\ corrected_ref = <<>>
    /\ corrected_train_y = <<>>
    /\ corrected_train_c = <<>>
    /\ train_outputs = None
    /\ model = None
    /\ acq = None
    /\ candidates = <<>>
    /\ hv_track = <<>>
    /\ stragglers = <<>>
    /\ raised = ""
    /\ mobo_result = None
    /\ successes = 0
    /\ skipped = 0

Init == GenIdle /\ BatchIdle /\ MoboIdle

Next ==
    \/ \E new_data \in Frames : AddData(new_data) /\ UNCHANGED <<batchVars, restVars>>
    \/ \E frame \in Frames : SetData(frame) /\ UNCHANGED <<batchVars, restVars>>
    \/ \E n \in 0..MaxCandidates, hook \in HookOutcomes : Generate(n, hook) /\ UNCHANGED <<batchVars, restVars>>
    \/ Reset /\ UNCHANGED <<batchVars, restVars>>

Spec == Init /\ [][Next]_vars

(***************************************************************************)
(* mobo.py: one batch of evaluations.                                      *)
(*                                                                         *)
(* The VOCS of the MOBO run: the keys of vocs['variables'] (the same two   *)
(* variables as above), vocs['objectives'] and vocs['constraints'].        *)
(***************************************************************************)
MaxBatch == 2         \* most evaluations submitted in one batch
MaxOutcomes == 3      \* most outcome records handed to collect_results

objective_names == <<"y1", "y2">>
constraint_names == <<"c1", "c2">>

EvalPoints == {Point(0, 1), Point(1, 0), Point(1, 1)}

\* evaluate_f when it returns: a mapping from output name to value
EvaluateF(inputs) == [y1 |-> inputs.x1 + inputs.x2, y2 |-> inputs.x1 - inputs.x2, c1 |-> inputs.x1, c2 |-> inputs.x2]

\* str(ex) of the exception evaluate_f raises on these inputs
ExceptionMessage(inputs) == <<"evaluate_f failed on", inputs.x1, inputs.x2>>

\* lines 62-63: the outputs recorded for a raised exception
\* (traceback.print_tb returns None)
ExceptionOutputs(inputs) == [Exception |-> ExceptionMessage(inputs), Traceback |-> "None"]

Tasks == 1..Len(batch)

(***************************************************************************)
(* sampler_evaluate, one call per task, run by the executor's threads.     *)
(* `outputs` is declared global (line 54): every call stores into and      *)
(* reads from the same module variable; `err` and `result` are locals.     *)
(***************************************************************************)
\* lines 57-64: evaluate_f returns or raises; outputs and err are assigned
Evaluate(t, raises) ==
    /\ tpc[t] = "pending"
    /\ outputs' = Some(IF raises THEN ExceptionOutputs(batch[t]) ELSE EvaluateF(batch[t]))
    /\ terr' = [terr EXCEPT ![t] = raises]
    /\ tpc' = [tpc EXCEPT ![t] = "evaluated"]
    /\ UNCHANGED <<batch, fresult, gpc, ix, ii, results, collected>>

\* lines 68-73: the finally block builds the result from inputs, the global
\* outputs and the local err; the call returns and the future is done
Finish(t) ==
    /\ tpc[t] = "evaluated"
    /\ fresult' = [fresult EXCEPT ![t] = Some([inputs |-> batch[t], outputs |-> outputs.val, error |-> terr[t]])]
    /\ tpc' = [tpc EXCEPT ![t] = "done"]
    /\ UNCHANGED <<batch, terr, outputs, gpc, ix, ii, results, collected>>

(***************************************************************************)
(* get_results(futures): ix is the 1-based position of the for loop; a     *)
(* pass ends when ix has run past the last future.                         *)
(***************************************************************************)
\* line 86: fut.done()
FutureDone(t) == tpc[t] = "done"

\* lines 83-90: one iteration of the for loop
PollFuture ==
    /\ gpc = "poll"
    /\ ix <= Len(batch)
    /\ IF ~FutureDone(ix)
       THEN UNCHANGED <<results, ii>>
       ELSE /\ results' = Append(results, fresult[ix].val)
            /\ ii' = ii + 1
    /\ ix' = ix + 1
    /\ UNCHANGED <<batch, tpc, terr, outputs, fresult, gpc, collected>>

\* lines 92-96 and 82: the end of a pass, then the next pass or the return
EndPass ==
    /\ gpc = "poll"
    /\ ix > Len(batch)
    /\ IF ii > Len(batch)
       THEN gpc' = "returned" /\ UNCHANGED ix
       ELSE gpc' = "poll" /\ ix' = 1
    /\ UNCHANGED <<batch, tpc, terr, outputs, fresult, ii, results, collected>>

(***************************************************************************)
(* collect_results(results, vocs)                                          *)
(***************************************************************************)
\* [mapping[ele] for ele in names]; a missing key raises KeyError
HasKeys(mapping, names) == \A i \in 1..Len(names) : names[i] \in DOMAIN mapping
Row(mapping, names) == [i \in 1..Len(names) |-> mapping[names[i]]]

EmptyCollection == [kind |-> "ok", train_x |-> <<>>, train_y |-> <<>>, train_c |-> <<>>, at_least_one_point |-> FALSE]
Raised(kind) == [kind |-> kind, train_x |-> <<>>, train_y |-> <<>>, train_c |-> <<>>, at_least_one_point |-> FALSE]

\* the loop body that takes every outcome, whatever its error flag
CollectStepIgnoresError(acc, result) ==
    IF acc.kind # "ok" THEN acc
    ELSE IF ~(HasKeys(result.inputs, variable_names) /\ HasKeys(result.outputs, objective_names) /\ HasKeys(result.outputs, constraint_names))
         THEN Raised("KeyError")
         ELSE [kind |-> "ok",
               train_x |-> Append(acc.train_x, Row(result.inputs, variable_names)),
               train_y |-> Append(acc.train_y, Row(result.outputs, objective_names)),
               train_c |-> Append(acc.train_c, Row(result.outputs, constraint_names)),
               at_least_one_point |-> TRUE]

\* lines 113-118: the loop body for one outcome
CollectStep(acc, result) ==
    IF acc.kind # "ok" THEN acc
    ELSE IF result.error THEN acc
    ELSE IF ~(HasKeys(result.inputs, variable_names) /\ HasKeys(result.outputs, objective_names) /\ HasKeys(result.outputs, constraint_names))
         THEN Raised("KeyError")
         ELSE [kind |-> "ok",
               train_x |-> Append(acc.train_x, Row(result.inputs, variable_names)),
               train_y |-> Append(acc.train_y, Row(result.outputs, objective_names)),
               train_c |-> Append(acc.train_c, Row(result.outputs, constraint_names)),
               at_least_one_point |-> TRUE]

\* lines 112-118: the for loop over results[1..k]
RECURSIVE CollectLoop(_, _)
CollectLoop(rs, k) == IF k = 0 THEN EmptyCollection ELSE CollectStep(CollectLoop(rs, k - 1), rs[k])

\* lines 106-127
CollectResults(rs) ==
    LET acc == CollectLoop(rs, Len(rs))
    IN  IF acc.kind # "ok" THEN acc
        ELSE IF ~acc.at_least_one_point THEN Raised("NoValidResultsError")
        ELSE acc

\* lines 331-333 and 399-402: collect_results is applied to what get_results returned
Collect ==
    /\ gpc = "returned"
    /\ collected' = Some(CollectResults(results))
    /\ gpc' = "collected"
    /\ UNCHANGED <<batch, tpc, terr, outputs, fresult, ix, ii, results>>

(***************************************************************************)
(* SpecBatch: the tasks of one batch have been submitted to a thread pool  *)
(* (lines 326-329, 395-398); they run concurrently with each other and     *)
(* with the polling loop of get_results.                                   *)
(***************************************************************************)
BatchInit ==
    /\ batch \in SeqsUpTo(EvalPoints, MaxBatch)
    /\ tpc = [t \in 1..Len(batch) |-> "pending"]
    /\ terr = [t \in 1..Len(batch) |-> FALSE]
    /\ outputs = None
    /\ fresult = [t \in 1..Len(batch) |-> None]
    /\ gpc = "poll"
    /\ ix = 1
    /\ ii = 1
    /\ results = <<>>
    /\ collected = None

InitBatch == GenIdle /\ BatchInit /\ MoboIdle

NextBatch ==
    \/ \E t \in Tasks, raises \in BOOLEAN : Evaluate(t, raises) /\ UNCHANGED <<genVars, restVars>>
    \/ \E t \in Tasks : Finish(t) /\ UNCHANGED <<genVars, restVars>>
    \/ PollFuture /\ UNCHANGED <<genVars, restVars>>
    \/ EndPass /\ UNCHANGED <<genVars, restVars>>
    \/ Collect /\ UNCHANGED <<genVars, restVars>>

SpecBatch == InitBatch /\ [][NextBatch]_vars

(***************************************************************************)
(* SpecCollect: collect_results applied to every batch of well-formed      *)
(* outcome records: a success carries an output mapping, a failure the     *)
(* exception payload.                                                      *)
(***************************************************************************)
Outcomes ==
    {[inputs |-> p, outputs |-> EvaluateF(q), error |-> FALSE] : p \in EvalPoints, q \in EvalPoints}
    \cup {[inputs |-> p, outputs |-> ExceptionOutputs(p), error |-> TRUE] : p \in EvalPoints}

InitCollect ==
    /\ GenIdle
    /\ MoboIdle
    /\ batch = <<>>
    /\ tpc = <<>>
    /\ terr = <<>>
    /\ outputs = None
    /\ fresult = <<>>
    /\ gpc = "returned"
    /\ ix = 1
    /\ ii = 1
    /\ results \in SeqsUpTo(Outcomes, MaxOutcomes)
    /\ collected = None

NextCollect == Collect /\ UNCHANGED <<genVars, restVars>>

SpecCollect == InitCollect /\ [][NextCollect]_vars

(***************************************************************************)
(* mobo: the body of one optimization step up to the acquisition           *)
(* (lines 343-389) and optimize_qehvi's use of the constraint columns      *)
(* (lines 141-169).                                                        *)
(*                                                                         *)
(* Directions are the strings of the VOCS; "maximise" and "less_then" are  *)
(* strings the code does not recognize.  Raw constraint values lie on,     *)
(* below and above the thresholds.                                         *)
(***************************************************************************)
MaxConstraints == 2
MaxTrainRows == 1

ObjectiveDirections == {"MAXIMIZE", "MINIMIZE", "maximise"}
ConstraintDirections == {"LESS_THAN", "GREATER_THAN", "less_then"}
Thresholds == {0, 2}
RawConstraintValues == {0, 2}
RawObjectiveRows == {<<1, -2>>}
RefPoints == {<<-1, 2>>}

CorrectObjectiveFlipped(direction, value) ==
    IF direction = "MINIMIZE" THEN value
    ELSE IF direction = "MAXIMIZE" THEN -value
    ELSE value

\* lines 348-356: column j of the objectives (and ref[j]) under its direction
CorrectObjective(direction, value) ==
    IF direction = "MINIMIZE" THEN -value
    ELSE IF direction = "MAXIMIZE" THEN value
    ELSE value

CorrectConstraintSwapped(spec, value) ==
    IF spec[1] = "GREATER_THAN" THEN -(spec[2] - value)
    ELSE IF spec[1] = "LESS_THAN" THEN spec[2] - value
    ELSE value

\* lines 362-369: column k of the constraints under spec = <<direction, threshold>>
CorrectConstraint(spec, value) ==
    IF spec[1] = "GREATER_THAN" THEN spec[2] - value
    ELSE IF spec[1] = "LESS_THAN" THEN -(spec[2] - value)
    ELSE value

CorrectedRef(objs, r) == [j \in 1..Len(r) |-> CorrectObjective(objs[j], r[j])]

CorrectedObjectives(objs, Y) == [r \in 1..Len(Y) |-> [j \in 1..Len(objs) |-> CorrectObjective(objs[j], Y[r][j])]]

CorrectedConstraints(cons, C) == [r \in 1..Len(C) |-> [k \in 1..Len(cons) |-> CorrectConstraint(cons[k], C[r][k])]]

\* lines 343-369
CorrectSigns ==
    /\ pc = "correct"
    /\ corrected_train_y' = CorrectedObjectives(vocs_objectives, train_y)
    /\ corrected_train_c' = CorrectedConstraints(vocs_constraints, train_c)
    /\ corrected_ref' = CorrectedRef(vocs_objectives, ref)
    /\ pc' = "fit"
    /\ UNCHANGED <<n_steps, return_model, step, hv_track, stragglers, raised, mobo_result>>
    /\ UNCHANGED <<dataVars, train_outputs, model, acq, candidates>>

\* botorch's standardize(Y): row r is rescaled by the mean and deviation of
\* the whole of Y; the value is kept symbolic.
Standardize(Y) == [r \in 1..Len(Y) |-> [row |-> Y[r], of |-> Len(Y)]]

\* torch.hstack of the standardized objectives and the corrected constraints
HStack(Y, C) == [r \in 1..Len(Y) |-> [y |-> Y[r], c |-> C[r]]]

\* lines 359-378: SingleTaskGP(train_x, train_outputs) and its fit
FitModel ==
    /\ pc = "fit"
    /\ LET out == HStack(Standardize(corrected_train_y), corrected_train_c)
       IN  /\ train_outputs' = Some(out)
           /\ model' = Some([X |-> train_x, Y |-> out])
    /\ pc' = "acquire"
    /\ UNCHANGED <<n_steps, return_model, step, hv_track, stragglers, raised, mobo_result>>
    /\ UNCHANGED <<dataVars, corrected_ref, corrected_train_y, corrected_train_c, acq, candidates>>

\* optimize_qehvi, line 145 (and mobo, line 415): (train_c <= 0).all(dim=-1)
IsFeas(C) == [r \in 1..Len(C) |-> \A k \in 1..Len(C[r]) : C[r][k] <= 0]

\* optimize_qehvi, lines 156-158: the offsets of Z[..., -1] and Z[..., -2]
constraint_functions == <<-1, -2>>

\* the 1-based column of a row of `width` outputs that offset addresses
ColumnRead(offset, width) == width + offset + 1

\* lines 384-389 and optimize_qehvi (lines 141-234) with q = batch_size = 1:
\* the model's outputs are the objectives followed by the constraints
OptimizeQehvi(candidate) ==
    /\ pc = "acquire"
    /\ LET n_obectives == Len(vocs_objectives)
           n_outputs == n_obectives + Len(vocs_constraints)
       IN  acq' = Some([n_obectives |-> n_obectives,
                        is_feas |-> IsFeas(corrected_train_c),
                        reads |-> [f \in 1..Len(constraint_functions) |-> ColumnRead(constraint_functions[f], n_outputs)]])
    /\ candidates' = <<candidate>>
    /\ pc' = "submit"
    /\ UNCHANGED <<n_steps, return_model, step, hv_track, stragglers, raised, mobo_result>>
    /\ UNCHANGED <<dataVars, corrected_ref, corrected_train_y, corrected_train_c, train_outputs, model>>

(***************************************************************************)
(* SpecCorrect: the step body applied to every bounded dataset and VOCS:   *)
(* two objectives, up to MaxConstraints constraints, up to MaxTrainRows    *)
(* observations.                                                           *)
(***************************************************************************)
ConstraintSpecs == ConstraintDirections \X Thresholds

RowsOfWidth(S, w) == [1..w -> S]

InitCorrect ==
    /\ GenIdle
    /\ BatchIdle
    /\ pc = "correct"
    /\ n_steps = 1
    /\ return_model = FALSE
    /\ step = 0
    /\ vocs_objectives \in [1..Len(objective_names) -> ObjectiveDirections]
    /\ vocs_constraints \in SeqsUpTo(ConstraintSpecs, MaxConstraints)
    /\ ref \in RefPoints
    /\ \E n \in 1..MaxTrainRows :
          /\ train_x = [r \in 1..n |-> Point(r, 0)]
          /\ train_y \in [1..n -> RawObjectiveRows]
          /\ train_c \in [1..n -> RowsOfWidth(RawConstraintValues, Len(vocs_constraints))]
    /\ corrected_ref = <<>>
    /\ corrected_train_y = <<>>
    /\ corrected_train_c = <<>>
    /\ train_outputs = None
    /\ model = None
    /\ acq = None
    /\ candidates = <<>>
    /\ hv_track = <<>>
    /\ stragglers = <<>>
    /\ raised = ""
    /\ mobo_result = None
    /\ successes = 0
    /\ skipped = 0

NextCorrect ==
    \/ CorrectSigns /\ UNCHANGED <<genVars, batchVars, countVars>>
    \/ FitModel /\ UNCHANGED <<genVars, batchVars, countVars>>
    \/ \E candidate \in EvalPoints : OptimizeQehvi(candidate) /\ UNCHANGED <<genVars, batchVars, countVars>>

SpecCorrect == InitCorrect /\ [][NextCorrect]_vars

(***************************************************************************)
(* SpecMobo: a whole run of mobo on a thread-pool executor, from the       *)
(* submission of the initial samples (lines 326-329) to the return.  The   *)
(* tasks of a batch run concurrently with each other, with get_results and *)
(* with everything mobo does afterwards: get_results can return while a    *)
(* task of the initial batch is still pending, and that task then runs     *)
(* during later iterations (it is kept in stragglers).  Each iteration     *)
(* asks optimize_qehvi for q = batch_size = 1 candidate.                   *)
(*                                                                         *)
(* successes counts the evaluate_f calls that returned normally, skipped   *)
(* the iterations that ended with NoValidResultsError.                     *)
(***************************************************************************)
MaxSteps == 2

\* initial_x: no sample, one sample, two samples
InitialSamples == {<<>>, <<Point(0, 1)>>, <<Point(0, 1), Point(1, 0)>>}

MoboObjectives == <<"MINIMIZE", "MAXIMIZE">>
MoboConstraints == <<<<"LESS_THAN", 0>>, <<"GREATER_THAN", 0>>>>

\* lines 300-335: the VOCS is parsed, the initial samples are submitted
InitMobo ==
    /\ GenIdle
    /\ batch \in InitialSamples
    /\ tpc = [t \in 1..Len(batch) |-> "pending"]
    /\ terr = [t \in 1..Len(batch) |-> FALSE]
    /\ outputs = None
    /\ fresult = [t \in 1..Len(batch) |-> None]
    /\ gpc = "poll"
    /\ ix = 1
    /\ ii = 1
    /\ results = <<>>
    /\ collected = None
    /\ pc = "initial"
    /\ n_steps \in 0..MaxSteps
    /\ return_model \in BOOLEAN
    /\ step = 0
    /\ vocs_objectives = MoboObjectives
    /\ vocs_constraints = MoboConstraints
    /\ ref \in RefPoints
    /\ train_x = <<>>
    /\ train_y = <<>>
    /\ train_c = <<>>
    /\ corrected_ref = <<>>
    /\ corrected_train_y = <<>>
    /\ corrected_train_c = <<>>
    /\ train_outputs = None
    /\ model = None
    /\ acq = None
    /\ candidates = <<>>
    /\ hv_track = <<>>
    /\ stragglers = <<>>
    /\ raised = ""
    /\ mobo_result = None
    /\ successes = 0
    /\ skipped = 0

\* lines 331-335: the initial collection; an exception of collect_results
\* leaves mobo
CollectInitial ==
    /\ pc = "initial"
    /\ Collect
    /\ LET c == CollectResults(results)
       IN  IF c.kind = "ok"
           THEN /\ train_x' = c.train_x
                /\ train_y' = c.train_y
                /\ train_c' = c.train_c
                /\ pc' = "loop"
                /\ UNCHANGED raised
           ELSE /\ raised' = c.kind
                /\ pc' = "raised"
                /\ UNCHANGED <<train_x, train_y, train_c>>
    /\ UNCHANGED <<n_steps, return_model, step, hv_track, stragglers, mobo_result>>
    /\ UNCHANGED <<vocs_objectives, vocs_constraints, ref, workVars>>

\* line 338: for i in range(n_steps)
LoopHead ==
    /\ pc = "loop"
    /\ pc' = IF step < n_steps THEN "correct" ELSE "after_loop"
    /\ UNCHANGED <<n_steps, return_model, step, hv_track, stragglers, raised, mobo_result>>
    /\ UNCHANGED <<dataVars, workVars>>

\* the tasks of the batch get_results has stopped looking at
Abandoned == SelectSeq([t \in Tasks |-> t], LAMBDA t : tpc[t] = "pending")

\* lines 395-398: one sampler_evaluate task per candidate
SubmitCandidates ==
    /\ pc = "submit"
    /\ stragglers' = stragglers \o [s \in 1..Len(Abandoned) |-> batch[Abandoned[s]]]
    /\ batch' = candidates
    /\ tpc' = [t \in 1..Len(candidates) |-> "pending"]
    /\ terr' = [t \in 1..Len(candidates) |-> FALSE]
    /\ fresult' = [t \in 1..Len(candidates) |-> None]
    /\ gpc' = "poll"
    /\ ix' = 1
    /\ ii' = 1
    /\ results' = <<>>
    /\ pc' = "wait"
    /\ UNCHANGED <<outputs, collected>>
    /\ UNCHANGED <<n_steps, return_model, step, hv_track, raised, mobo_result>>
    /\ UNCHANGED <<dataVars, workVars>>

\* lines 57-64 run by a task of an earlier batch: it stores into the global
\* outputs; its result goes to a future nobody reads
StragglerEvaluate(s, raises) ==
    /\ s \in 1..Len(stragglers)
    /\ outputs' = Some(IF raises THEN ExceptionOutputs(stragglers[s]) ELSE EvaluateF(stragglers[s]))
    /\ stragglers' = [k \in 1..(Len(stragglers) - 1) |-> IF k < s THEN stragglers[k] ELSE stragglers[k + 1]]
    /\ UNCHANGED <<batch, tpc, terr, fresult, gpc, ix, ii, results, collected>>
    /\ UNCHANGED <<pc, n_steps, return_model, step, hv_track, raised, mobo_result>>
    /\ UNCHANGED <<dataVars, workVars>>

\* lines 414-415: the rows of the corrected objectives that are feasible
FeasTrainObj(Y, C) ==
    LET feas == SelectSeq([r \in 1..Len(Y) |-> r], LAMBDA r : IsFeas(C)[r])
    IN  [n \in 1..Len(feas) |-> Y[feas[n]]]

\* lines 416-424: the hypervolume of the feasible Pareto front, kept
\* symbolic, or 0.0 when no row is feasible
Volume(Y, C, r) ==
    LET feas_train_obj == FeasTrainObj(Y, C)
    IN  IF Len(feas_train_obj) > 0
        THEN [hypervolume_of |-> feas_train_obj, ref_point |-> r]
        ELSE [hypervolume_of |-> <<>>, ref_point |-> <<>>]

\* the step end that lets NoValidResultsError leave mobo
CollectIterationAborts ==
    /\ pc = "wait"
    /\ Collect
    /\ LET c == CollectResults(results)
       IN  IF c.kind = "ok"
           THEN /\ train_x' = train_x \o c.train_x
                /\ train_y' = train_y \o c.train_y
                /\ train_c' = train_c \o c.train_c
                /\ hv_track' = Append(hv_track, Volume(corrected_train_y, corrected_train_c, corrected_ref))
                /\ step' = step + 1
                /\ pc' = "loop"
                /\ UNCHANGED raised
           ELSE /\ raised' = c.kind
                /\ pc' = "raised"
                /\ UNCHANGED <<train_x, train_y, train_c, hv_track, step>>
    /\ UNCHANGED <<n_steps, return_model, stragglers, mobo_result>>
    /\ UNCHANGED <<vocs_objectives, vocs_constraints, ref, workVars>>

\* the step end that records a hypervolume value whatever was collected
CollectIterationAlwaysReports ==
    /\ pc = "wait"
    /\ Collect
    /\ LET c == CollectResults(results)
       IN  IF c.kind = "ok"
           THEN /\ train_x' = train_x \o c.train_x
                /\ train_y' = train_y \o c.train_y
                /\ train_c' = train_c \o c.train_c
                /\ hv_track' = Append(hv_track, Volume(corrected_train_y, corrected_train_c, corrected_ref))
                /\ step' = step + 1
                /\ pc' = "loop"
                /\ UNCHANGED raised
           ELSE IF c.kind = "NoValidResultsError"
           THEN /\ hv_track' = Append(hv_track, Volume(corrected_train_y, corrected_train_c, corrected_ref))
                /\ step' = step + 1
                /\ pc' = "loop"
                /\ UNCHANGED <<train_x, train_y, train_c, raised>>
           ELSE /\ raised' = c.kind
                /\ pc' = "raised"
                /\ UNCHANGED <<train_x, train_y, train_c, hv_track, step>>
    /\ UNCHANGED <<n_steps, return_model, stragglers, mobo_result>>
    /\ UNCHANGED <<vocs_objectives, vocs_constraints, ref, workVars>>

\* lines 399-427: collect_results on what get_results returned; the new rows
\* are stacked under the dataset and the hypervolume is recorded, or
\* NoValidResultsError is caught and the loop continues; any other exception
\* leaves mobo
CollectIteration ==
    /\ pc = "wait"
    /\ Collect
    /\ LET c == CollectResults(results)
       IN  IF c.kind = "ok"
           THEN /\ train_x' = train_x \o c.train_x
                /\ train_y' = train_y \o c.train_y
                /\ train_c' = train_c \o c.train_c
                /\ hv_track' = Append(hv_track, Volume(corrected_train_y, corrected_train_c, corrected_ref))
                /\ step' = step + 1
                /\ pc' = "loop"
                /\ UNCHANGED raised
           ELSE IF c.kind = "NoValidResultsError"
           THEN /\ step' = step + 1
                /\ pc' = "loop"
                /\ UNCHANGED <<train_x, train_y, train_c, hv_track, raised>>
           ELSE /\ raised' = c.kind
                /\ pc' = "raised"
                /\ UNCHANGED <<train_x, train_y, train_c, hv_track, step>>
    /\ UNCHANGED <<n_steps, return_model, stragglers, mobo_result>>
    /\ UNCHANGED <<vocs_objectives, vocs_constraints, ref, workVars>>

\* lines 439-448 (plot_acq = False): with return_model a SingleTaskGP is
\* built from the final train_x and the train_outputs of the last step body
\* (NameError when no step body ran); `accepted` is whether the library
\* fits a model whose two matrices differ in their number of rows
ReturnResult(accepted) ==
    /\ pc = "after_loop"
    /\ IF ~return_model
       THEN /\ accepted
            /\ mobo_result' = Some([train_x |-> train_x, train_y |-> train_y, train_c |-> train_c, model |-> None])
            /\ pc' = "returned"
            /\ UNCHANGED <<model, raised>>
       ELSE IF train_outputs.none
       THEN /\ accepted
            /\ raised' = "NameError"
            /\ pc' = "raised"
            /\ UNCHANGED <<model, mobo_result>>
       ELSE IF Len(train_x) # Len(train_outputs.val) /\ ~accepted
       THEN /\ raised' = "RuntimeError"
            /\ pc' = "raised"
            /\ UNCHANGED <<model, mobo_result>>
       ELSE /\ accepted
            /\ model' = Some([X |-> train_x, Y |-> train_outputs.val])
            /\ mobo_result' = Some([train_x |-> train_x, train_y |-> train_y, train_c |-> train_c, model |-> model'])
            /\ pc' = "returned"
            /\ UNCHANGED raised
    /\ UNCHANGED <<n_steps, return_model, step, hv_track, stragglers>>
    /\ UNCHANGED <<dataVars, corrected_ref, corrected_train_y, corrected_train_c, train_outputs, acq, candidates>>

NextMobo ==
    \/ \E t \in Tasks, raises \in BOOLEAN :
          /\ Evaluate(t, raises)
          /\ successes' = successes + (IF raises THEN 0 ELSE 1)
          /\ UNCHANGED <<genVars, moboVars, skipped>>
    \/ \E t \in Tasks : Finish(t) /\ UNCHANGED <<genVars, restVars>>
    \/ \E s \in 1..Len(stragglers), raises \in BOOLEAN :
          /\ StragglerEvaluate(s, raises)
          /\ successes' = successes + (IF raises THEN 0 ELSE 1)
          /\ UNCHANGED <<genVars, skipped>>
    \/ PollFuture /\ UNCHANGED <<genVars, restVars>>
    \/ EndPass /\ UNCHANGED <<genVars, restVars>>
    \/ CollectInitial /\ UNCHANGED <<genVars, countVars>>
    \/ LoopHead /\ UNCHANGED <<genVars, batchVars, countVars>>
    \/ CorrectSigns /\ UNCHANGED <<genVars, batchVars, countVars>>
    \/ FitModel /\ UNCHANGED <<genVars, batchVars, countVars>>
    \/ \E candidate \in EvalPoints : OptimizeQehvi(candidate) /\ UNCHANGED <<genVars, batchVars, countVars>>
    \/ SubmitCandidates /\ UNCHANGED <<genVars, countVars>>
    \/ /\ CollectIteration
       /\ skipped' = skipped + (IF CollectResults(results).kind = "NoValidResultsError" THEN 1 ELSE 0)
       /\ UNCHANGED <<genVars, successes>>
    \/ \E accepted \in BOOLEAN : ReturnResult(accepted) /\ UNCHANGED <<genVars, batchVars, countVars>>

SpecMobo == InitMobo /\ [][NextMobo]_vars

(***************************************************************************)
(* Properties of the SequentialGenerator (checked under Spec).             *)
(***************************************************************************)
IsOp(name) == op'.name = name

\* the single row of new_data does not match the outstanding candidate
Mismatch(candidate, new_data) == Len(new_data) = 1 /\ ~AllClose(candidate.val[1], new_data[1])

\* C1: while the generator is active, add_data of one row that differs from
\* the last returned candidate by more than rtol 1e-6 in some variable fails
\* with SeqGeneratorError, leaves the dataset unchanged and does not invoke
\* the _add_data hook.
C1_MismatchRejected ==
    [][(/\ IsOp("add_data")
        /\ is_active
        /\ ~last_candidate.none
        /\ Mismatch(last_candidate, op'.frame))
       => (err' = "SeqGeneratorError" /\ data' = data /\ "_add_data" \notin hooks')]_vars

\* C2 (as claimed): at most one candidate is outstanding at any time.
C2_AtMostOneOutstanding == outstanding <= 1

\* C2 (amended): generate() applies no lockout.  Every successful generate()
\* hands out exactly one candidate, one more than were unresolved before, and
\* the generator keeps only that most recent candidate: the stored last
\* candidate is the one just returned, and whenever some candidate is
\* unresolved the generator is active and stores a candidate.
C2_OnlyLatestTracked ==
    /\ [](outstanding > 0 => is_active /\ ~last_candidate.none /\ Len(last_candidate.val) = 1)
    /\ [][(IsOp("generate") /\ err' = "ok")
          => (/\ ~ret'.none
              /\ Len(ret'.val) = 1
              /\ last_candidate' = ret'
              /\ outstanding' = outstanding + 1)]_vars

C2_Witness == outstanding = 2 /\ op.name = "generate" /\ err = "ok"

C4_TooManyCandidatesRejected ==
    [][(IsOp("generate") /\ op'.n > 1)
       => (/\ err' = "SeqGeneratorError"
           /\ hooks' = {}
           /\ ret'.none
           /\ UNCHANGED <<is_active, last_candidate, data, data_set>>)]_vars

C4_Witness ==
    /\ op.name = "generate"
    /\ op.n = 2
    /\ err = "SeqGeneratorError"
    /\ is_active
    /\ data_set
    /\ reset_after_set

\* C5: reset() leaves is_active false and the last candidate empty, and an
\* add_data() issued while the generator is inactive (after reset(), before
\* the next generate()) is accepted and appended whatever its values are.
C5_ResetUnlocksAddData ==
    [][/\ IsOp("reset") => (~is_active' /\ last_candidate'.none)
       /\ (IsOp("add_data") /\ ~is_active)
             => (/\ err' = "ok"
                 /\ data' = ConcatData(op'.frame)
                 /\ "_add_data" \in hooks')]_vars

C5_Witness ==
    /\ op.name = "add_data"
    /\ err = "ok"
    /\ ~is_active
    /\ ~discarded.none
    /\ Mismatch(discarded, op.frame)
    /\ ~data.none
    /\ data.val # <<>>

\* C6: is_active turns true only at a successful generate() and stays true
\* across generate(), add_data() and set_data() until reset(); every
\* successful generate() stores the candidate it returns, and no operation
\* other than reset() clears the stored candidate.
C6_Lifecycle ==
    [][/\ (~is_active /\ is_active') => (IsOp("generate") /\ err' = "ok")
       /\ (is_active /\ ~IsOp("reset")) => is_active'
       /\ (IsOp("generate") /\ err' = "ok") => (is_active' /\ ~ret'.none /\ last_candidate' = ret')
       /\ (last_candidate' # last_candidate) => ((IsOp("generate") /\ err' = "ok") \/ IsOp("reset"))
       /\ (~last_candidate.none /\ last_candidate'.none) => IsOp("reset")]_vars

C6_Witness ==
    /\ op.name = "add_data"
    /\ err = "ok"
    /\ is_active
    /\ ~last_candidate.none
    /\ data_set

\* C7: the first set_data() succeeds whether or not the generator is active,
\* with no check against the last candidate or the row count, and changes
\* neither is_active nor the last candidate; every later set_data() fails,
\* also after a reset().
C7_SetDataOnce ==
    [][/\ IsOp("set_data")
             => IF ~data_set
                THEN /\ err' = "ok"
                     /\ data_set'
                     /\ "_set_data" \in hooks'
                     /\ UNCHANGED <<is_active, last_candidate>>
                ELSE /\ err' = "ValueError"
                     /\ hooks' = {}
                     /\ UNCHANGED <<is_active, last_candidate, data, data_set>>
       /\ data_set => data_set']_vars

C7_Witness ==
    /\ op.name = "set_data"
    /\ err = "ValueError"
    /\ reset_after_set
    /\ ~is_active

(***************************************************************************)
(* Properties of the batch evaluation (checked under SpecBatch) and of     *)
(* collect_results (checked under SpecCollect).                            *)
(***************************************************************************)
Returned == gpc \in {"returned", "collected"}

\* C8: get_results returns only once every future of the batch is done;
\* while some future has not completed, get_results has not returned.
C8_ReturnsOnlyWhenAllDone == Returned => \A t \in Tasks : FutureDone(t)

\* what task t's own evaluation produced: the value evaluate_f returned for
\* its inputs, or the payload of the exception it raised on them
OwnOutputs(t) == IF terr[t] THEN ExceptionOutputs(batch[t]) ELSE EvaluateF(batch[t])

\* C9: under every interleaving of the concurrent sampler_evaluate calls,
\* each finished outcome carries its own submitted inputs together with the
\* outputs and the error flag produced by evaluating exactly those inputs.
C9_OutcomePairing ==
    \A t \in Tasks :
        FutureDone(t) => (/\ fresult[t].val.inputs = batch[t]
                          /\ fresult[t].val.error = terr[t]
                          /\ fresult[t].val.outputs = OwnOutputs(t))

Successes(rs) == SelectSeq(rs, LAMBDA r : ~r.error)

\* C10: for a batch of n outcomes with m successes, collect_results returns
\* train_x, train_y and train_c of exactly m rows each when m >= 1, row i of
\* all three taken from the i-th successful outcome in encounter order, and
\* raises NoValidResultsError when m = 0 (the empty batch included).
C10_CollectResults ==
    gpc = "collected" =>
        LET succ == Successes(results)
            m == Len(succ)
            c == collected.val
        IN  IF m = 0
            THEN c.kind = "NoValidResultsError"
            ELSE /\ c.kind = "ok"
                 /\ Len(c.train_x) = m
                 /\ Len(c.train_y) = m
                 /\ Len(c.train_c) = m
                 /\ \A i \in 1..m :
                        /\ c.train_x[i] = <<succ[i].inputs.x1, succ[i].inputs.x2>>
                        /\ c.train_y[i] = <<succ[i].outputs.y1, succ[i].outputs.y2>>
                        /\ c.train_c[i] = <<succ[i].outputs.c1, succ[i].outputs.c2>>

C10_Witness ==
    /\ gpc = "collected"
    /\ Len(results) = 3
    /\ ~results[1].error
    /\ results[2].error
    /\ ~results[3].error
    /\ results[1].inputs # results[3].inputs
    /\ collected.val.kind = "ok"
    /\ Len(collected.val.train_x) = 2
    /\ collected.val.train_x[1] # collected.val.train_x[2]

\* C11: an exception raised by evaluate_f is not propagated: the outcome has
\* error = true, the attempted inputs and the exception's message; a normal
\* return gives error = false, the inputs and the returned outputs; hence a
\* failing evaluation never keeps the other outcomes of its batch from being
\* collected (collect_results meets no malformed record).
C11_ExceptionsCaptured ==
    /\ \A t \in Tasks :
          FutureDone(t) =>
              LET r == fresult[t].val
              IN  /\ r.inputs = batch[t]
                  /\ terr[t] => (/\ r.error
                                 /\ "Exception" \in DOMAIN r.outputs
                                 /\ r.outputs.Exception = ExceptionMessage(batch[t]))
                  /\ ~terr[t] => (~r.error /\ r.outputs = EvaluateF(batch[t]))
    /\ gpc = "collected" => collected.val.kind \in {"ok", "NoValidResultsError"}

(***************************************************************************)
(* Properties of the sign correction and of the acquisition's constraint   *)
(* handling (checked under SpecCorrect).  pc = "fit" is the state right    *)
(* after the correction, pc = "submit" the one right after optimize_qehvi. *)
(***************************************************************************)
AllMaximize == \A j \in 1..Len(vocs_objectives) : vocs_objectives[j] = "MAXIMIZE"

AllLessThan == \A k \in 1..Len(vocs_constraints) : vocs_constraints[k][1] = "LESS_THAN"

\* C16 (as stated): with every objective MAXIMIZE and every constraint
\* LESS_THAN, whatever the thresholds, the correction leaves the objectives,
\* the constraints and ref unchanged.
C16_IdentityOnCanonical ==
    (pc = "fit" /\ AllMaximize /\ AllLessThan) =>
        /\ corrected_train_y = train_y
        /\ corrected_train_c = train_c
        /\ corrected_ref = ref

\* C16 (amended): with every objective MAXIMIZE and every constraint
\* LESS_THAN the correction leaves the objectives and ref unchanged and
\* turns each constraint value into value - threshold, so the constraints
\* are unchanged exactly where the threshold is 0.
C16_IdentityUpToThreshold ==
    (pc = "fit" /\ AllMaximize /\ AllLessThan) =>
        /\ corrected_train_y = train_y
        /\ corrected_ref = ref
        /\ \A r \in 1..Len(train_c), k \in 1..Len(vocs_constraints) :
              /\ corrected_train_c[r][k] = train_c[r][k] - vocs_constraints[k][2]
              /\ (corrected_train_c[r][k] = train_c[r][k]) <=> (vocs_constraints[k][2] = 0)

C16_Witness ==
    /\ pc = "fit"
    /\ AllMaximize
    /\ AllLessThan
    /\ Len(vocs_constraints) = 2
    /\ vocs_constraints[1][2] = 0
    /\ vocs_constraints[2][2] # 0
    /\ corrected_train_c # train_c

\* C17: an objective whose direction is not recognized is corrected exactly
\* as a MAXIMIZE objective, and a constraint whose direction is not
\* recognized exactly as a LESS_THAN constraint with the same threshold.
C17_UnrecognizedDefaults ==
    pc = "fit" =>
        /\ \A j \in 1..Len(vocs_objectives) :
              vocs_objectives[j] \notin {"MAXIMIZE", "MINIMIZE"} =>
                  /\ corrected_ref[j] = CorrectObjective("MAXIMIZE", ref[j])
                  /\ \A r \in 1..Len(train_y) :
                        corrected_train_y[r][j] = CorrectObjective("MAXIMIZE", train_y[r][j])
        /\ \A k \in 1..Len(vocs_constraints) :
              vocs_constraints[k][1] \notin {"LESS_THAN", "GREATER_THAN"} =>
                  \A r \in 1..Len(train_c) :
                        corrected_train_c[r][k] = CorrectConstraint(<<"LESS_THAN", vocs_constraints[k][2]>>, train_c[r][k])

\* the raw value satisfies the constraint as declared
Satisfies(spec, value) ==
    IF spec[1] = "LESS_THAN" THEN value <= spec[2] ELSE value >= spec[2]

Declared(k) == vocs_constraints[k][1] \in {"LESS_THAN", "GREATER_THAN"}

\* C18: for constraints declared LESS_THAN or GREATER_THAN, a corrected
\* value is <= 0 exactly when the raw value satisfies the declaration
\* (<= threshold for LESS_THAN, >= threshold for GREATER_THAN), and when all
\* constraints are so declared optimize_qehvi treats a row as feasible
\* exactly when each of its raw constraint values does.
C18_FeasibleIffSatisfied ==
    /\ pc \in {"fit", "acquire", "submit"} =>
          \A r \in 1..Len(train_c), k \in 1..Len(vocs_constraints) :
              Declared(k) => ((corrected_train_c[r][k] <= 0) <=> Satisfies(vocs_constraints[k], train_c[r][k]))
    /\ (pc = "submit" /\ \A k \in 1..Len(vocs_constraints) : Declared(k)) =>
          \A r \in 1..Len(train_c) :
              acq.val.is_feas[r] <=> \A k \in 1..Len(vocs_constraints) : Satisfies(vocs_constraints[k], train_c[r][k])

C18_Witness ==
    /\ pc = "submit"
    /\ Len(vocs_constraints) = 2
    /\ vocs_constraints[1] = <<"LESS_THAN", 2>>
    /\ vocs_constraints[2] = <<"GREATER_THAN", 2>>
    /\ train_c[1] = <<2, 2>>
    /\ acq.val.is_feas[1]

\* C20: optimize_qehvi hands the acquisition exactly one constraint function
\* per constraint column, each reading its own constraint output of the
\* model and none an objective output.
C20_OneFunctionPerConstraint ==
    pc = "submit" =>
        LET n == acq.val.n_obectives
            reads == acq.val.reads
        IN  /\ Len(reads) = Len(vocs_constraints)
            /\ {reads[f] : f \in 1..Len(reads)} = (n + 1)..(n + Len(vocs_constraints))

(***************************************************************************)
(* Properties of the mobo loop (checked under SpecMobo).                   *)
(***************************************************************************)
\* no outcome of the batch is a success
ZeroSuccessful(rs) == \A k \in 1..Len(rs) : rs[k].error

\* the step in which mobo takes the results of an iteration's batch
EndsIteration == pc = "wait" /\ pc' # "wait"

\* C12: an iteration whose batch has no successful outcome leaves train_x,
\* train_y and train_c as they were and the loop goes on to the next
\* iteration without raising; NoValidResultsError leaves mobo only from the
\* initial collection, when the initial batch has no successful outcome.
C12_BatchFailurePolicy ==
    [][/\ (EndsIteration /\ ZeroSuccessful(results)) =>
              /\ <<train_x, train_y, train_c>>' = <<train_x, train_y, train_c>>
              /\ pc' = "loop"
              /\ step' = step + 1
              /\ raised' = ""
       /\ (raised = "" /\ raised' = "NoValidResultsError") =>
              (pc = "initial" /\ ZeroSuccessful(results))]_vars

C12_Witness ==
    /\ pc = "loop"
    /\ step = 1
    /\ skipped = 1
    /\ Len(train_x) >= 1
    /\ raised = ""

\* C13 (as stated): a hypervolume value is appended in every iteration, so
\* the track has one entry per iteration done and n_steps entries after the
\* loop.
C13_TrackEveryIteration ==
    /\ pc \in {"loop", "after_loop", "returned"} => Len(hv_track) = step
    /\ pc \in {"after_loop", "returned"} => Len(hv_track) = n_steps

\* C13 (amended): a hypervolume value is appended exactly in the iterations
\* that collected at least one successful outcome; an iteration that ends
\* with NoValidResultsError appends nothing, so after the loop the track has
\* n_steps entries less the number of such iterations.
C13_TrackOnlyCollectedIterations ==
    /\ Len(hv_track) = step - skipped
    /\ pc \in {"after_loop", "returned"} => Len(hv_track) = n_steps - skipped

C13_Witness ==
    /\ pc = "returned"
    /\ n_steps = 2
    /\ skipped = 1
    /\ Len(hv_track) = 1

\* every task submitted so far has run evaluate_f
AllEvaluated == stragglers = <<>> /\ \A t \in Tasks : tpc[t] # "pending"

IsPrefix(a, b) == Len(a) <= Len(b) /\ \A r \in 1..Len(a) : a[r] = b[r]

\* C14: train_x, train_y and train_c always have the same number of rows,
\* every update keeps the old rows as an identically ordered prefix, and
\* the number of rows mobo returns is the number of successful evaluations
\* of the initial batch and of the iterations.
C14_TrainingSetInvariant ==
    /\ [](Len(train_x) = Len(train_y) /\ Len(train_y) = Len(train_c))
    /\ [][IsPrefix(train_x, train_x') /\ IsPrefix(train_y, train_y') /\ IsPrefix(train_c, train_c')]_vars
    /\ []((pc = "returned" /\ AllEvaluated) => Len(train_x) = successes)

\* C15: mobo raises only NoValidResultsError and only when no evaluation of
\* the initial batch has succeeded; otherwise it returns, after exactly
\* n_steps iterations, the accumulated train_x, train_y and train_c.
C15_RunsToCompletion ==
    /\ pc = "raised" => (raised = "NoValidResultsError" /\ successes = 0)
    /\ pc = "returned" =>
          /\ step = n_steps
          /\ mobo_result.val.train_x = train_x
          /\ mobo_result.val.train_y = train_y
          /\ mobo_result.val.train_c = train_c

\* C19: every surrogate is built from an input and an output matrix with
\* the same number of rows, row r of both describing observation r of the
\* dataset; the returned model is built from the final dataset, and asking
\* for it never raises.
C19_ModelRowsCorrespond ==
    /\ ~model.none =>
          /\ Len(model.val.X) = Len(model.val.Y)
          /\ IsPrefix(model.val.X, train_x)
    /\ (pc = "returned" /\ return_model) =>
          /\ model.val.X = train_x
          /\ model.val.Y = HStack(Standardize(CorrectedObjectives(vocs_objectives, train_y)),
                                  CorrectedConstraints(vocs_constraints, train_c))
    /\ raised \notin {"NameError", "RuntimeError"}

(***************************************************************************)
(* A further property of get_results (checked under SpecBatch).            *)
(***************************************************************************)
\* how often the record r occurs in the list rs
Occurrences(rs, r) == Cardinality({k \in 1..Len(rs) : rs[k] = r})

\* C21: the list get_results returns has one entry per submitted future:
\* its length is the number of futures, every future is done and its result
\* occurs in the list exactly as often as futures hold that result (none
\* duplicated, none missing).
C21_OneOutcomePerFuture ==
    Returned =>
        /\ Len(results) = Len(batch)
        /\ \A t \in Tasks :
              /\ FutureDone(t)
              /\ Occurrences(results, fresult[t].val)
                    = Cardinality({u \in Tasks : FutureDone(u) /\ fresult[u] = fresult[t]})

(***************************************************************************)
(* A further property of the SequentialGenerator (checked under Spec,      *)
(* where the _generate hook returns a one-point candidate list or raises). *)
(***************************************************************************)
\* C22: in every state reached through generate, add_data, set_data and
\* reset, an active generator holds a non-empty last candidate; so no
\* add_data call meets "generator is active, but no candidate was generated"
\* (line 38), and a hook that raises on the first call, _generate(True),
\* leaves the generator inactive with the last candidate as it was.
C22_ActiveHasCandidate ==
    /\ [](is_active => (~last_candidate.none /\ Len(last_candidate.val) >= 1))
    /\ [][IsOp("add_data") => ~(is_active /\ last_candidate.none)]_vars
    /\ [][(IsOp("generate") /\ err' = "HookError" /\ ~is_active)
             => (~is_active' /\ last_candidate' = last_candidate)]_vars

C22_Witness ==
    /\ op.name = "generate"
    /\ err = "HookError"
    /\ hooks = {"_generate(True)"}
    /\ ~is_active
    /\ last_candidate.none
    /\ ~discarded.none

====
